---- MODULE Spec2Model ----
(***************************************************************************)
(* Log_Analyzer.py: field extraction from combined-log-format lines        *)
(* (get_user_agent, is_bot, get_ipaddr, get_hour) and the two aggregators  *)
(* built on them (histbyhour, ipaddreses).                                 *)
(*                                                                         *)
(* A Python str is a sequence of one-character strings.  A value that may  *)
(* be None is a record [isNone, str].  A call that may raise returns a     *)
(* record [raised, val] where raised is "none" or the exception's name.    *)
(***************************************************************************)
EXTENDS Integers, Sequences, FiniteSets, TLC

VARIABLES
    arg,            \* the str handed to the extraction function under test
    ret,            \* what that function returned
    called,         \* whether the function under test has been called
    file,           \* the lines of the opened file, as indices into Pool
    op,             \* which aggregator runs: "histbyhour" or "ipaddreses"
    pc,             \* position of the aggregator: start, loop, returned, raised
    handle,         \* the file object: "unopened", "open", "closed"
    nread,          \* number of lines the for loop has taken from the file
    hours_recorded, \* the dict of histbyhour, a function hour -> count
    ip_numbers,     \* the set of ipaddreses
    result,         \* what the caller receives on return
    error,          \* the exception the caller receives, "none" if none
    extracted       \* number of get_ipaddr calls made by this invocation

vars == <<arg, ret, called, file, op, pc, handle, nread, hours_recorded,
          ip_numbers, result, error, extracted>>

----------------------------------------------------------------------------
(* Characters and str methods                                              *)

DigitChars == <<"0", "1", "2", "3", "4", "5", "6", "7", "8", "9">>

UpperChars == <<"A", "B", "C", "D", "E", "F", "G", "H", "I", "J", "K", "L", "M",
                "N", "O", "P", "Q", "R", "S", "T", "U", "V", "W", "X", "Y", "Z">>

LowerChars == <<"a", "b", "c", "d", "e", "f", "g", "h", "i", "j", "k", "l", "m",
                "n", "o", "p", "q", "r", "s", "t", "u", "v", "w", "x", "y", "z">>

IsDigit(c) == \E i \in DOMAIN DigitChars : DigitChars[i] = c

DigitVal(c) == (CHOOSE i \in DOMAIN DigitChars : DigitChars[i] = c) - 1

IsUpper(c) == \E i \in DOMAIN UpperChars : UpperChars[i] = c

IsLower(c) == \E i \in DOMAIN LowerChars : LowerChars[i] = c

\* \w of the re module, on the ASCII range
IsWordChar(c) == IsDigit(c) \/ IsUpper(c) \/ IsLower(c) \/ c = "_"

\* \s of the re module, on the ASCII range
SpaceChars == {" ", "\t", "\n", "\r", "\f"}

IsSpaceChar(c) == c \in SpaceChars

LowerChar(c) ==
    IF IsUpper(c)
    THEN LowerChars[CHOOSE i \in DOMAIN UpperChars : UpperChars[i] = c]
    ELSE c

\* str.lower()
Lower(s) == [i \in DOMAIN s |-> LowerChar(s[i])]

\* s[p:p+Len(t)] == t
MatchAt(s, p, t) ==
    /\ p >= 1
    /\ p + Len(t) - 1 <= Len(s)
    /\ \A k \in 1..Len(t) : s[p + k - 1] = t[k]

\* `t in s` for strs / re.search of a literal pattern
Contains(s, t) == \E p \in 1..(Len(s) + 1) : MatchAt(s, p, t)

\* the positions at or after p where sep occurs in s
Occurrences(s, sep, p) == {q \in p..(Len(s) - Len(sep) + 1) : MatchAt(s, q, sep)}

\* str.split(sep): cut at each occurrence of sep, found left to right from
\* the end of the previous one
RECURSIVE SplitFrom(_, _, _)
SplitFrom(s, sep, start) ==
    LET occ == Occurrences(s, sep, start)
    IN  IF occ = {}
        THEN <<SubSeq(s, start, Len(s))>>
        ELSE LET q == CHOOSE x \in occ : \A y \in occ : x <= y
             IN  <<SubSeq(s, start, q - 1)>> \o SplitFrom(s, sep, q + Len(sep))

Split(s, sep) == SplitFrom(s, sep, 1)

\* str.strip(chars)
RECURSIVE LStrip(_, _)
LStrip(s, chars) ==
    IF s # <<>> /\ Head(s) \in chars THEN LStrip(Tail(s), chars) ELSE s

RECURSIVE RStrip(_, _)
RStrip(s, chars) ==
    IF s # <<>> /\ s[Len(s)] \in chars THEN RStrip(SubSeq(s, 1, Len(s) - 1), chars) ELSE s

Strip(s, chars) == RStrip(LStrip(s, chars), chars)

NoneStr == [isNone |-> TRUE, str |-> <<>>]

SomeStr(s) == [isNone |-> FALSE, str |-> s]

Returned(v) == [raised |-> "none", val |-> v]

Raised(e) == [raised |-> e, val |-> 0]

----------------------------------------------------------------------------
(* get_user_agent                                                          *)

UserAgentDelim == <<"\"", " ">>

UserAgentStrip == {"\"", " ", "\n"}

UserAgentMinLen == 2

\* the length test written as >= 2
get_user_agent_ge(line) ==
    LET parts == Split(line, UserAgentDelim)
        user_to_seek == Strip(parts[Len(parts)], UserAgentStrip)
    IN  IF Len(user_to_seek) >= UserAgentMinLen THEN SomeStr(user_to_seek) ELSE NoneStr

get_user_agent(line) ==
    LET parts == Split(line, UserAgentDelim)
        user_to_seek == Strip(parts[Len(parts)], UserAgentStrip)
    IN  IF Len(user_to_seek) > UserAgentMinLen THEN SomeStr(user_to_seek) ELSE NoneStr

----------------------------------------------------------------------------
(* is_bot                                                                  *)

BotPattern == <<"b", "o", "t">>

\* `if line:` is false for None and for the empty str
Truthy(line) == ~line.isNone /\ line.str # <<>>

\* the search made on line instead of line.lower()
is_bot_case_sensitive(line) ==
    IF Truthy(line) THEN Contains(line.str, BotPattern) ELSE FALSE

is_bot(line) ==
    IF Truthy(line) THEN Contains(Lower(line.str), BotPattern) ELSE FALSE

----------------------------------------------------------------------------
(* get_ipaddr: re.compile(r'^([0-9]+\.)+[0-9]+\b').search(line).group(0)   *)

At(s, p) == IF p \in 1..Len(s) THEN s[p] ELSE ""

\* s[1..j] is in ([0-9]+\.)+[0-9]+ : digit runs joined by single dots, at least two runs
DottedNumeric(s, j) ==
    /\ j \in 1..Len(s)
    /\ \A k \in 1..j : IsDigit(s[k]) \/ s[k] = "."
    /\ IsDigit(s[1])
    /\ IsDigit(s[j])
    /\ \E k \in 1..j : s[k] = "."
    /\ \A k \in 1..(j - 1) : ~(s[k] = "." /\ s[k + 1] = ".")

\* \b after a matched digit: the next character is not a word character
WordBoundaryAfter(s, j) == ~IsWordChar(At(s, j + 1))

IpMatchEnds(s) == {j \in 1..Len(s) : DottedNumeric(s, j) /\ WordBoundaryAfter(s, j)}

\* the greedy quantifiers give the longest of the possible matches
get_ipaddr(line) ==
    LET ends == IpMatchEnds(line)
    IN  IF ends = {}
        THEN Raised("AttributeError")
        ELSE Returned(SubSeq(line, 1, CHOOSE j \in ends : \A k \in ends : k <= j))

----------------------------------------------------------------------------
(* datetime.strptime(s, '%d/%b/%Y:%H:%M:%S %z').hour                       *)

MonthAbbr == << <<"j", "a", "n">>, <<"f", "e", "b">>, <<"m", "a", "r">>,
                <<"a", "p", "r">>, <<"m", "a", "y">>, <<"j", "u", "n">>,
                <<"j", "u", "l">>, <<"a", "u", "g">>, <<"s", "e", "p">>,
                <<"o", "c", "t">>, <<"n", "o", "v">>, <<"d", "e", "c">> >>

IsLeap(y) == (y % 4 = 0 /\ y % 100 # 0) \/ y % 400 = 0

DaysInMonth(y, m) ==
    IF m = 2 THEN (IF IsLeap(y) THEN 29 ELSE 28)
    ELSE IF m \in {4, 6, 9, 11} THEN 30 ELSE 31

Num2(s, p) == 10 * DigitVal(s[p]) + DigitVal(s[p + 1])

Dig2(s, p) == IsDigit(At(s, p)) /\ IsDigit(At(s, p + 1))

\* A one- or two-digit directive followed by a literal: the alternative that
\* lets the literal match is the one the regex settles on. 0 when none does.
FieldLen(s, p, twoOK, oneOK, follow) ==
    IF Dig2(s, p) /\ twoOK /\ At(s, p + 2) \in follow THEN 2
    ELSE IF IsDigit(At(s, p)) /\ oneOK /\ At(s, p + 1) \in follow THEN 1
    ELSE 0

FieldVal(s, p, n) == IF n = 2 THEN Num2(s, p) ELSE DigitVal(s[p])

\* %d : 3[0-1]|[1-2]\d|0[1-9]|[1-9]| [1-9]
DayLen(s, p) ==
    IF At(s, p) = " " /\ IsDigit(At(s, p + 1)) /\ At(s, p + 1) # "0" /\ At(s, p + 2) = "/"
    THEN 2
    ELSE FieldLen(s, p,
                  Dig2(s, p) /\ Num2(s, p) \in 1..31,
                  At(s, p) # "0",
                  {"/"})

DayVal(s, p, n) == IF At(s, p) = " " THEN DigitVal(s[p + 1]) ELSE FieldVal(s, p, n)

\* %b : the abbreviated month names, matched ignoring case; 0 when none matches
MonthVal(s, p) ==
    IF p + 2 <= Len(s) /\ \E m \in DOMAIN MonthAbbr : Lower(SubSeq(s, p, p + 2)) = MonthAbbr[m]
    THEN CHOOSE m \in DOMAIN MonthAbbr : Lower(SubSeq(s, p, p + 2)) = MonthAbbr[m]
    ELSE 0

\* %Y : \d\d\d\d
YearOK(s, p) == Dig2(s, p) /\ Dig2(s, p + 2)

YearVal(s, p) == 100 * Num2(s, p) + Num2(s, p + 2)

\* %H : 2[0-3]|[0-1]\d|\d
HourLen(s, p) == FieldLen(s, p, Dig2(s, p) /\ Num2(s, p) \in 0..23, TRUE, {":"})

\* %M : [0-5]\d|\d
MinuteLen(s, p) == FieldLen(s, p, Dig2(s, p) /\ Num2(s, p) \in 0..59, TRUE, {":"})

\* %S : 6[0-1]|[0-5]\d|\d    followed by \s+ (the blank of the format)
SecondLen(s, p) == FieldLen(s, p, Dig2(s, p) /\ Num2(s, p) \in 0..61, TRUE, SpaceChars)

RECURSIVE SkipSpace(_, _)
SkipSpace(s, p) == IF IsSpaceChar(At(s, p)) THEN SkipSpace(s, p + 1) ELSE p

Min05(s, p) == Dig2(s, p) /\ Num2(s, p) \in 0..59

RECURSIVE DigitRun(_, _, _)
DigitRun(s, p, max) ==
    IF max > 0 /\ IsDigit(At(s, p)) THEN 1 + DigitRun(s, p + 1, max - 1) ELSE 0

\* %z : [+-]\d\d:?[0-5]\d(:?[0-5]\d(\.\d{1,6})?)?|Z
\* [len |-> characters consumed (0: no match), ok |-> the offset is accepted]
ZoneMatch(s, p) ==
    IF At(s, p) = "Z" THEN [len |-> 1, ok |-> TRUE]
    ELSE IF ~(At(s, p) \in {"+", "-"} /\ Dig2(s, p + 1)) THEN [len |-> 0, ok |-> FALSE]
    ELSE
      LET colon1 == At(s, p + 3) = ":"
          pm == IF colon1 THEN p + 4 ELSE p + 3
      IN  IF ~Min05(s, pm) THEN [len |-> 0, ok |-> FALSE]
          ELSE
            LET q == pm + 2
                colon2 == At(s, q) = ":"
                ps == IF colon2 THEN q + 1 ELSE q
                hasSec == Min05(s, ps)
                frac == IF hasSec /\ At(s, ps + 2) = "." THEN DigitRun(s, ps + 3, 6) ELSE 0
                stop == IF ~hasSec THEN q
                        ELSE IF frac > 0 THEN ps + 3 + frac ELSE ps + 2
            IN  [len |-> stop - p,
                 \* seconds are read with the colon use of the minutes; and
                 \* timezone()'s range of under 24 hours
                 ok |-> /\ (hasSec => (colon1 <=> colon2))
                        /\ Num2(s, p + 1) <= 23]

strptime_hour(s) ==
    LET dl == DayLen(s, 1)
        pb == 1 + dl + 1
        mo == MonthVal(s, pb)
        py == pb + 4
        ph == py + 5
        hl == HourLen(s, ph)
        pmi == ph + hl + 1
        ml == MinuteLen(s, pmi)
        ps == pmi + ml + 1
        sl == SecondLen(s, ps)
        pz == SkipSpace(s, ps + sl)
        z == ZoneMatch(s, pz)
    IN  IF /\ dl > 0
           /\ mo > 0 /\ At(s, pb + 3) = "/"
           /\ YearOK(s, py) /\ At(s, py + 4) = ":"
           /\ hl > 0
           /\ ml > 0
           /\ sl > 0
           /\ z.len > 0
           \* "unconverted data remains"
           /\ pz + z.len = Len(s) + 1
           /\ z.ok
           \* the datetime constructor's own range checks
           /\ YearVal(s, py) >= 1
           /\ DayVal(s, 1, dl) <= DaysInMonth(YearVal(s, py), mo)
           /\ FieldVal(s, ps, sl) <= 59
        THEN Returned(FieldVal(s, ph, hl))
        ELSE Raised("ValueError")

----------------------------------------------------------------------------
(* get_hour: re.compile(r'\[(.+)\]').search(line), then strptime           *)

\* \[(.+)\] matches from i to j: brackets at both ends, at least one
\* character between them, none of them a newline
BracketMatch(line, i, j) ==
    /\ line[i] = "["
    /\ line[j] = "]"
    /\ j > i + 1
    /\ \A k \in (i + 1)..(j - 1) : line[k] # "\n"

BracketStarts(line) ==
    {i \in 1..Len(line) : \E j \in 1..Len(line) : BracketMatch(line, i, j)}

get_hour(line) ==
    LET starts == BracketStarts(line)
    IN  IF starts = {}
        THEN Raised("AttributeError")
        ELSE LET i == CHOOSE x \in starts : \A y \in starts : x <= y
                 ends == {j \in 1..Len(line) : BracketMatch(line, i, j)}
                 j == CHOOSE x \in ends : \A y \in ends : y <= x
             IN  strptime_hour(SubSeq(line, i + 1, j - 1))

----------------------------------------------------------------------------
(* The lines a file may hold: combined-log-format records, and records     *)
(* with one field malformed.  Every line ends with its newline, as the     *)
(* iteration over an open file yields it.                                  *)

Addr34 ==
    <<"3", "4", ".", "1", "0", "5", ".", "9", "3", ".", "1", "8", "3">>

Addr39 ==
    <<"3", "9", ".", "1", "0", "3", ".", "1", "6", "8", ".", "8", "8">>

Addr66 ==
    <<"6", "6", ".", "2", "4", "9", ".", "6", "6", ".", "3", "5">>

HostName ==
    <<"l", "o", "c", "a", "l", "h", "o", "s", "t">>

Ident ==
    <<" ", "-", " ", "-", " ">>

Stamp05 ==
    <<"[", "1", "5", "/", "S", "e", "p", "/", "2", "0", "2", "3", ":", "0",
      "5", ":", "1", "8", ":", "4", "6", " ", "+", "0", "2", "0", "0", "]">>

Stamp07 ==
    <<"[", "1", "0", "/", "O", "c", "t", "/", "2", "0", "2", "3", ":", "0",
      "7", ":", "5", "5", ":", "4", "7", " ", "+", "0", "2", "0", "0", "]">>

Stamp23 ==
    <<"[", "2", "9", "/", "F", "e", "b", "/", "2", "0", "2", "4", ":", "2",
      "3", ":", "0", "0", ":", "0", "9", " ", "-", "0", "1", "3", "0", "]">>

StampNoZone ==
    <<"[", "1", "5", "/", "S", "e", "p", "/", "2", "0", "2", "3", ":", "0",
      "5", ":", "1", "8", ":", "4", "6", "]">>

StampNoBrackets ==
    <<"1", "5", "/", "S", "e", "p", "/", "2", "0", "2", "3", ":", "0", "5",
      ":", "1", "8", ":", "4", "6", " ", "+", "0", "2", "0", "0">>

Request ==
    <<" ", "\"", "G", "E", "T", " ", "/", "a", " ", "H", "T", "T", "P", "/",
      "1", ".", "1", "\"", " ", "2", "0", "0", " ", "5", "9", " ", "\"", "-",
      "\"", " ">>

AgentFirefox ==
    <<"\"", "M", "o", "z", "i", "l", "l", "a", "/", "5", ".", "0", " ", "F",
      "i", "r", "e", "f", "o", "x", "/", "1", "1", "7", ".", "0", "\"">>

AgentGooglebot ==
    <<"\"", "M", "o", "z", "i", "l", "l", "a", "/", "5", ".", "0", " ", "(",
      "c", "o", "m", "p", "a", "t", "i", "b", "l", "e", ";", " ", "G", "o",
      "o", "g", "l", "e", "b", "o", "t", "/", "2", ".", "1", ")", "\"">>

AgentYandexBot ==
    <<"\"", "Y", "a", "n", "d", "e", "x", "B", "o", "t", "/", "3", ".", "0",
      "\"">>

AgentDash ==
    <<"\"", "-", "\"">>

AgentEmpty ==
    <<"\"", "\"">>

Newline ==
    <<"\n">>

LogLine(addr, stamp, agent) == addr \o Ident \o stamp \o Request \o agent \o Newline

Pool == <<
    LogLine(Addr34, Stamp05, AgentFirefox),
    LogLine(Addr39, Stamp05, AgentFirefox),
    LogLine(Addr34, Stamp23, AgentGooglebot),
    LogLine(Addr66, Stamp07, AgentYandexBot),
    LogLine(Addr39, Stamp07, AgentDash),
    LogLine(Addr34, Stamp23, AgentEmpty),
    LogLine(Addr34, StampNoBrackets, AgentFirefox),
    LogLine(Addr39, StampNoZone, AgentGooglebot),
    LogLine(HostName, Stamp05, AgentYandexBot),
    LogLine(HostName, Stamp23, AgentFirefox),
    LogLine(HostName, Stamp07, AgentDash) >>

----------------------------------------------------------------------------
(* histbyhour and ipaddreses                                               *)

MaxLines == 3

Files == UNION {[1..n -> DOMAIN Pool] : n \in 0..MaxLines}

EmptyDict == [h \in {} |-> 0]

NoResult == [kind |-> "none", val |-> {}]

\* the else branch sets the count without adding to it, in both branches
HistUpdate_no_increment(hours, h) ==
    [k \in DOMAIN hours \cup {h} |-> IF k = h THEN 1 ELSE hours[k]]

\* the else branch binds hours_recorded to a new dict {accessed_hour: 1}
HistUpdate_rebind(hours, h) ==
    IF h \in DOMAIN hours
    THEN [hours EXCEPT ![h] = @ + 1]
    ELSE [k \in {h} |-> 1]

\* if accessed_hour in hours_recorded.keys(): ... += 1  else: ... = 1
HistUpdate(hours, h) ==
    IF h \in DOMAIN hours
    THEN [hours EXCEPT ![h] = @ + 1]
    ELSE [k \in DOMAIN hours \cup {h} |-> IF k = h THEN 1 ELSE hours[k]]

\* The extraction functions on each line of Pool. A line of a file is kept
\* as its index in Pool, and the loops below look its fields up here.
HourOf == [i \in DOMAIN Pool |-> get_hour(Pool[i])]

UserAgentOf == [i \in DOMAIN Pool |-> get_user_agent(Pool[i])]

BotOf == [i \in DOMAIN Pool |-> is_bot(UserAgentOf[i])]

IpAddrOf == [i \in DOMAIN Pool |-> get_ipaddr(Pool[i])]

\* the call of get_hour wrapped in try/except: continue
HistBody_skip_malformed(hours, line) ==
    LET accessed_hour == HourOf[line]
    IN  IF accessed_hour.raised # "none"
        THEN Returned(hours)
        ELSE Returned(HistUpdate(hours, accessed_hour.val))

\* the body of histbyhour's for loop on one line
HistBody(hours, line) ==
    LET accessed_hour == HourOf[line]
    IN  IF accessed_hour.raised # "none"
        THEN Raised(accessed_hour.raised)
        ELSE Returned(HistUpdate(hours, accessed_hour.val))

\* a line without user agent skipped like a bot line
IpBody_skip_absent(ips, line) ==
    IF ~BotOf[line] /\ ~UserAgentOf[line].isNone
    THEN LET ip == IpAddrOf[line]
         IN  IF ip.raised # "none"
             THEN [raised |-> ip.raised, val |-> ips, calls |-> 1]
             ELSE [raised |-> "none", val |-> ips \cup {ip.val}, calls |-> 1]
    ELSE [raised |-> "none", val |-> ips, calls |-> 0]

\* the call of get_ipaddr wrapped in try/except: continue
IpBody_skip_malformed(ips, line) ==
    IF ~BotOf[line]
    THEN LET ip == IpAddrOf[line]
         IN  IF ip.raised # "none"
             THEN [raised |-> "none", val |-> ips, calls |-> 1]
             ELSE [raised |-> "none", val |-> ips \cup {ip.val}, calls |-> 1]
    ELSE [raised |-> "none", val |-> ips, calls |-> 0]

\* get_ipaddr(line) evaluated before the test of is_bot
IpBody_extract_first(ips, line) ==
    LET ip == IpAddrOf[line]
    IN  IF ip.raised # "none"
        THEN [raised |-> ip.raised, val |-> ips, calls |-> 1]
        ELSE IF ~BotOf[line]
             THEN [raised |-> "none", val |-> ips \cup {ip.val}, calls |-> 1]
             ELSE [raised |-> "none", val |-> ips, calls |-> 1]

\* the body of ipaddreses' for loop on one line; calls counts the get_ipaddr calls
IpBody(ips, line) ==
    IF ~BotOf[line]
    THEN LET ip == IpAddrOf[line]
         IN  IF ip.raised # "none"
             THEN [raised |-> ip.raised, val |-> ips, calls |-> 1]
             ELSE [raised |-> "none", val |-> ips \cup {ip.val}, calls |-> 1]
    ELSE [raised |-> "none", val |-> ips, calls |-> 0]

\* open() and file.close() after the loop, without with or try/finally
WithExit_close_after_loop(exc) == IF exc THEN "open" ELSE "closed"

\* leaving the with block, normally (exc = FALSE) or by an exception
WithExit(exc) == "closed"

\* hours_recorded = dict() / ip_numbers = set(); with open(filename) as file:
Begin ==
    /\ pc = "start"
    /\ pc' = "loop"
    /\ handle' = "open"
    /\ hours_recorded' = EmptyDict
    /\ ip_numbers' = {}
    /\ UNCHANGED <<arg, ret, called, file, op, nread, result, error, extracted>>

\* one iteration of histbyhour's loop
HistStep ==
    /\ op = "histbyhour"
    /\ pc = "loop"
    /\ nread < Len(file)
    /\ nread' = nread + 1
    /\ LET r == HistBody(hours_recorded, file[nread + 1])
       IN  IF r.raised # "none"
           THEN /\ handle' = WithExit(TRUE)
                /\ pc' = "raised"
                /\ error' = r.raised
                /\ UNCHANGED hours_recorded
           ELSE /\ hours_recorded' = r.val
                /\ UNCHANGED <<handle, pc, error>>
    /\ UNCHANGED <<arg, ret, called, file, op, ip_numbers, result, extracted>>

\* the file is exhausted: the with block ends and hours_recorded is returned
HistReturn ==
    /\ op = "histbyhour"
    /\ pc = "loop"
    /\ nread = Len(file)
    /\ handle' = WithExit(FALSE)
    /\ pc' = "returned"
    /\ result' = [kind |-> "dict", val |-> hours_recorded]
    /\ UNCHANGED <<arg, ret, called, file, op, nread, hours_recorded, ip_numbers,
                   error, extracted>>

\* one iteration of ipaddreses' loop
IpStep ==
    /\ op = "ipaddreses"
    /\ pc = "loop"
    /\ nread < Len(file)
    /\ nread' = nread + 1
    /\ LET r == IpBody(ip_numbers, file[nread + 1])
       IN  /\ extracted' = extracted + r.calls
           /\ IF r.raised # "none"
              THEN /\ handle' = WithExit(TRUE)
                   /\ pc' = "raised"
                   /\ error' = r.raised
                   /\ UNCHANGED ip_numbers
              ELSE /\ ip_numbers' = r.val
                   /\ UNCHANGED <<handle, pc, error>>
    /\ UNCHANGED <<arg, ret, called, file, op, hours_recorded, result>>

\* the file is exhausted: the with block ends and ip_numbers is returned
IpReturn ==
    /\ op = "ipaddreses"
    /\ pc = "loop"
    /\ nread = Len(file)
    /\ handle' = WithExit(FALSE)
    /\ pc' = "returned"
    /\ result' = [kind |-> "set", val |-> ip_numbers]
    /\ UNCHANGED <<arg, ret, called, file, op, nread, hours_recorded, ip_numbers,
                   error, extracted>>

Init ==
    /\ arg = <<>>
    /\ ret = NoneStr
    /\ called = FALSE
    /\ file \in Files
    /\ op \in {"histbyhour", "ipaddreses"}
    /\ pc = "start"
    /\ handle = "unopened"
    /\ nread = 0
    /\ hours_recorded = EmptyDict
    /\ ip_numbers = {}
    /\ result = NoResult
    /\ error = "none"
    /\ extracted = 0

Next == Begin \/ HistStep \/ HistReturn \/ IpStep \/ IpReturn

Spec == Init /\ [][Next]_vars

\* histbyhour as a function of the whole sequence of lines
RECURSIVE HistRun(_, _, _)
HistRun(lines, k, hours) ==
    IF k > Len(lines)
    THEN Returned(hours)
    ELSE LET r == HistBody(hours, lines[k])
         IN  IF r.raised # "none" THEN Raised(r.raised) ELSE HistRun(lines, k + 1, r.val)

histbyhour(lines) == HistRun(lines, 1, EmptyDict)

\* ipaddreses as a function of the whole sequence of lines
RECURSIVE IpRun(_, _, _)
IpRun(lines, k, ips) ==
    IF k > Len(lines)
    THEN Returned(ips)
    ELSE LET r == IpBody(ips, lines[k])
         IN  IF r.raised # "none" THEN Raised(r.raised) ELSE IpRun(lines, k + 1, r.val)

ipaddreses(lines) == IpRun(lines, 1, {})

----------------------------------------------------------------------------
(* get_user_agent and is_bot called on their own                           *)

MaxAgentLine == 7

MaxAgentLen == 5

AgentLineChars == {"\"", " ", "-", "a"}

AgentChars == {"b", "B", "o", "O", "t", "T", "x"}

Strings(chars, n) == UNION {[1..k -> chars] : k \in 0..n}

Idle ==
    /\ file = <<>>
    /\ op = "none"
    /\ pc = "idle"
    /\ handle = "unopened"
    /\ nread = 0
    /\ hours_recorded = EmptyDict
    /\ ip_numbers = {}
    /\ result = NoResult
    /\ error = "none"
    /\ extracted = 0

\* a line as read from a file: any text, with or without its final newline
InitUserAgent ==
    /\ arg \in {b \o nl : b \in Strings(AgentLineChars, MaxAgentLine), nl \in {<<>>, Newline}}
    /\ ret = NoneStr
    /\ called = FALSE
    /\ Idle

CallUserAgent ==
    /\ ~called
    /\ called' = TRUE
    /\ ret' = get_user_agent(arg)
    /\ UNCHANGED <<arg, file, op, pc, handle, nread, hours_recorded, ip_numbers,
                   result, error, extracted>>

SpecUserAgent == InitUserAgent /\ [][CallUserAgent]_vars

\* None, or any str
InitBot ==
    /\ arg \in {NoneStr} \cup {SomeStr(s) : s \in Strings(AgentChars, MaxAgentLen)}
    /\ ret = FALSE
    /\ called = FALSE
    /\ Idle

CallBot ==
    /\ ~called
    /\ called' = TRUE
    /\ ret' = is_bot(arg)
    /\ UNCHANGED <<arg, file, op, pc, handle, nread, hours_recorded, ip_numbers,
                   result, error, extracted>>

SpecBot == InitBot /\ [][CallBot]_vars

----------------------------------------------------------------------------
(* Properties                                                              *)

Max(S) == CHOOSE x \in S : \A y \in S : y <= x

Min(S) == CHOOSE x \in S : \A y \in S : x <= y

QuotePositions(line) == {i \in 1..Len(line) : line[i] = "\""}

HasFinalQuoted(line) == Cardinality(QuotePositions(line)) >= 2

CloseQuote(line) == Max(QuotePositions(line))

OpenQuote(line) == Max(QuotePositions(line) \ {CloseQuote(line)})

\* the content between the final pair of quotes
FinalQuoted(line) == SubSeq(line, OpenQuote(line) + 1, CloseQuote(line) - 1)

\* the final quoted segment ends the line, up to the newline, and directly
\* follows the closing quote and blank of the quoted field before it
CombinedFormTail(line) ==
    /\ HasFinalQuoted(line)
    /\ \A i \in (CloseQuote(line) + 1)..Len(line) : line[i] = "\n"
    /\ OpenQuote(line) >= 3
    /\ line[OpenQuote(line) - 2] = "\""
    /\ line[OpenQuote(line) - 1] = " "

\* C6 as stated: get_user_agent returns None when the final quoted segment is
\* "-" or empty, and otherwise exactly the content between the final quotes.
C6_AsStated ==
    (called /\ HasFinalQuoted(arg)) =>
        ret = IF FinalQuoted(arg) \in {<<"-">>, <<>>}
              THEN NoneStr
              ELSE SomeStr(FinalQuoted(arg))

\* C6 amended: on a line whose final quoted segment ends the line and follows
\* another quoted field, get_user_agent returns None when that segment, with
\* its leading and trailing blanks and newlines removed, has at most two
\* characters, and otherwise returns the segment with its leading and
\* trailing blanks and newlines removed.
C6_UserAgent ==
    (called /\ CombinedFormTail(arg)) =>
        LET content == Strip(FinalQuoted(arg), {" ", "\n"})
        IN  ret = IF Len(content) <= 2 THEN NoneStr ELSE SomeStr(content)

C6_Witness ==
    /\ called
    /\ CombinedFormTail(arg)
    /\ ~ret.isNone
    /\ ret.str = FinalQuoted(arg)

\* text in which letter b, o, t follow each other, in either case
HasBotIgnoringCase(s) ==
    \E p \in 1..(Len(s) - 2) :
        /\ s[p] \in {"b", "B"}
        /\ s[p + 1] \in {"o", "O"}
        /\ s[p + 2] \in {"t", "T"}

SwapCase(c) ==
    IF IsUpper(c) THEN LowerChar(c)
    ELSE IF IsLower(c) THEN UpperChars[CHOOSE i \in DOMAIN LowerChars : LowerChars[i] = c]
    ELSE c

SwapCaseAt(s, i) == [s EXCEPT ![i] = SwapCase(@)]

\* C7: is_bot returns TRUE exactly when its input contains "bot" in any mix of
\* cases, FALSE for None and for the empty str, and changing the case of a
\* character of the input does not change the result.
C7_IsBot ==
    called =>
        /\ ret = (~arg.isNone /\ HasBotIgnoringCase(arg.str))
        /\ (arg.isNone \/ arg.str = <<>>) => ret = FALSE
        /\ \A i \in DOMAIN arg.str : is_bot(SomeStr(SwapCaseAt(arg.str, i))) = ret

C7_Witness ==
    /\ called
    /\ ret = TRUE
    /\ \E i \in DOMAIN arg.str : IsUpper(arg.str[i])
    /\ \E i \in DOMAIN arg.str : IsLower(arg.str[i])

----------------------------------------------------------------------------
(* Properties of the aggregators                                           *)

Ended == pc \in {"returned", "raised"}

LineIndexes == 1..Len(file)

RECURSIVE SumCounts(_, _)
SumCounts(f, S) ==
    IF S = {} THEN 0
    ELSE LET k == CHOOSE x \in S : TRUE IN f[k] + SumCounts(f, S \ {k})

Orderings(n) == {p \in [1..n -> 1..n] : \A i, j \in 1..n : p[i] = p[j] => i = j}

\* C1: when get_hour succeeds on every line, histbyhour returns a dict whose
\* keys are exactly the hours of the lines and whose value at each hour is the
\* number of lines with that hour.
C1_Histogram ==
    (op = "histbyhour" /\ Ended /\ \A i \in LineIndexes : HourOf[file[i]].raised = "none") =>
        /\ pc = "returned"
        /\ result.kind = "dict"
        /\ DOMAIN result.val = {HourOf[file[i]].val : i \in LineIndexes}
        /\ \A h \in DOMAIN result.val :
               result.val[h] = Cardinality({i \in LineIndexes : HourOf[file[i]].val = h})

C1_Witness ==
    /\ op = "histbyhour"
    /\ pc = "returned"
    /\ Len(file) >= 3
    /\ Cardinality(DOMAIN result.val) = 2
    /\ \E h \in DOMAIN result.val : result.val[h] = 2

\* C2: when get_ipaddr succeeds on every line, ipaddreses returns exactly the
\* set of the addresses of the lines whose user agent is not a bot; the address
\* of a line without user agent is in it, an address seen on bot lines only is
\* not, and an address seen on several lines is in it once.
C2_NonBotAddresses ==
    (op = "ipaddreses" /\ Ended /\ \A i \in LineIndexes : IpAddrOf[file[i]].raised = "none") =>
        /\ pc = "returned"
        /\ result.kind = "set"
        /\ result.val = {IpAddrOf[file[i]].val :
                            i \in {j \in LineIndexes : ~is_bot(UserAgentOf[file[j]])}}
        /\ \A i \in LineIndexes :
               UserAgentOf[file[i]].isNone => IpAddrOf[file[i]].val \in result.val
        /\ \A i \in LineIndexes :
               (\A j \in LineIndexes :
                    IpAddrOf[file[j]] = IpAddrOf[file[i]] => BotOf[file[j]])
               => IpAddrOf[file[i]].val \notin result.val

C2_Witness ==
    /\ op = "ipaddreses"
    /\ pc = "returned"
    /\ \E i \in LineIndexes : UserAgentOf[file[i]].isNone
    /\ \E i \in LineIndexes : BotOf[file[i]] /\ IpAddrOf[file[i]].val \notin result.val
    /\ Cardinality(result.val) = 1

\* the lines on which get_hour fails: no bracketed segment, or one that is
\* not a timestamp
MalformedStamps == {i \in LineIndexes : HourOf[file[i]].raised # "none"}

\* C3: when get_hour fails on some line, histbyhour raises at the first such
\* line: it reads no line after it, never returns, and hands no dict to the
\* caller.
C3_HistFailFast ==
    (op = "histbyhour" /\ MalformedStamps # {}) =>
        LET first == Min(MalformedStamps)
        IN  /\ nread <= first
            /\ pc # "returned"
            /\ result = NoResult
            /\ nread = first <=> pc = "raised"
            /\ pc = "raised" => error = HourOf[file[first]].raised

C3_Witness ==
    /\ op = "histbyhour"
    /\ pc = "raised"
    /\ nread = 2
    /\ Len(file) = 3
    /\ hours_recorded # EmptyDict
    /\ HourOf[file[3]].raised = "none"

\* the lines ipaddreses must collect and on which get_ipaddr fails
MalformedAddresses ==
    {i \in LineIndexes : ~BotOf[file[i]] /\ IpAddrOf[file[i]].raised # "none"}

\* C4: when a line that is not a bot's (a line without user agent included)
\* has no leading dotted-numeric token, ipaddreses raises at the first such
\* line, and no set is returned.
C4_IpFailFast ==
    (op = "ipaddreses" /\ MalformedAddresses # {}) =>
        LET first == Min(MalformedAddresses)
        IN  /\ nread <= first
            /\ pc # "returned"
            /\ result = NoResult
            /\ nread = first <=> pc = "raised"
            /\ pc = "raised" => error = "AttributeError"

C4_Witness ==
    /\ op = "ipaddreses"
    /\ pc = "raised"
    /\ nread = 2
    /\ UserAgentOf[file[2]].isNone
    /\ ip_numbers # {}

\* C5: histbyhour and ipaddreses return the same value on every permutation
\* of the lines; when the run raised, it raises on every permutation.
C5_OrderIndependent ==
    Ended =>
        \A p \in Orderings(Len(file)) :
            LET permuted == [i \in LineIndexes |-> file[p[i]]]
                r == IF op = "histbyhour" THEN histbyhour(permuted) ELSE ipaddreses(permuted)
            IN  IF pc = "returned"
                THEN r = Returned(result.val)
                ELSE r.raised # "none"

C5_Witness ==
    /\ op = "histbyhour"
    /\ pc = "returned"
    /\ Len(file) = 3
    /\ HourOf[file[1]].val # HourOf[file[2]].val
    /\ HourOf[file[1]].val = HourOf[file[3]].val

\* C8: the file is opened before the first line is read and is closed
\* whenever the call has ended, by return or by exception; lines are read
\* from the open file only, and a closed file stays closed.
C8_FileScoped ==
    /\ [](Ended => handle = "closed")
    /\ [](nread > 0 => handle # "unopened")
    /\ [][nread' # nread => (handle = "open" /\ nread' = nread + 1)]_vars
    /\ [][handle = "closed" => (handle' = "closed" /\ nread' = nread)]_vars

C8_Witness ==
    /\ pc = "raised"
    /\ handle = "closed"
    /\ nread >= 2
    /\ nread < Len(file)

\* C9: ipaddreses calls get_ipaddr on the lines that are not a bot's only; a
\* bot's line, with or without a leading address, leaves the set as it is
\* and does not raise.
C9_BotLineSkipped ==
    /\ [](op = "ipaddreses" =>
             extracted = Cardinality({i \in 1..nread : ~BotOf[file[i]]}))
    /\ [][(op = "ipaddreses" /\ nread' = nread + 1 /\ BotOf[file[nread + 1]]) =>
              (ip_numbers' = ip_numbers /\ pc' = "loop" /\ error' = "none"
               /\ extracted' = extracted)]_vars

C9_Witness ==
    /\ op = "ipaddreses"
    /\ pc = "returned"
    /\ Len(file) = 3
    /\ BotOf[file[2]]
    /\ IpAddrOf[file[2]].raised # "none"
    /\ ip_numbers # {}

\* C10: in histbyhour, after k lines processed without failure the counts sum
\* to k, every key is an hour in 0..23 and every count is at least 1; each
\* iteration adds 1 to the count of one hour and leaves the others as they are.
C10_FoldInvariant ==
    /\ [](op = "histbyhour" =>
            /\ DOMAIN hours_recorded \subseteq 0..23
            /\ \A h \in DOMAIN hours_recorded : hours_recorded[h] >= 1
            /\ SumCounts(hours_recorded, DOMAIN hours_recorded)
                   = IF pc = "raised" THEN nread - 1 ELSE nread)
    /\ [][(op = "histbyhour" /\ nread' = nread + 1 /\ pc' = "loop") =>
              \E h \in 0..23 :
                  /\ DOMAIN hours_recorded' = DOMAIN hours_recorded \cup {h}
                  /\ hours_recorded'[h] =
                         (IF h \in DOMAIN hours_recorded THEN hours_recorded[h] ELSE 0) + 1
                  /\ \A k \in DOMAIN hours_recorded \ {h} :
                         hours_recorded'[k] = hours_recorded[k]]_vars

C10_Witness ==
    /\ op = "histbyhour"
    /\ pc = "loop"
    /\ nread = 3
    /\ Cardinality(DOMAIN hours_recorded) = 2

====
